---- MODULE Spec2Model ----
(***************************************************************************)
(* Model of Main.py: the FOM scatter-plot pipeline                         *)
(*   select_file -> load_fom_data -> parse_sota_override                   *)
(*               -> compute_sota_auto -> plot_fom.                         *)
(* A workbook is a record [readable, columns, rows]; a row is a function   *)
(* from the column names to cells; a cell is <<>> (NaN, empty) or <<v>>.   *)
(* Text that the code scans (IDs, override formulas) is a sequence of      *)
(* one-character strings.  Numbers that come out of float() or the fit are *)
(* exact rationals [num, den].                                             *)
(***************************************************************************)
EXTENDS Integers, Sequences, FiniteSets, TLC

VARIABLES pc, file, file_path, df, sota_fn, df_comp, figure,
          called, messages, raised, exit_status

vars == <<pc, file, file_path, df, sota_fn, df_comp, figure,
          called, messages, raised, exit_status>>

----------------------------------------------------------------------------
(* Bounds of the input families.                                           *)
MaxRowsFit == 3
MaxRowsOverride == 2
MaxRowsMeta == 2
MaxRowsPlot == 3

----------------------------------------------------------------------------
(* Cells, columns, rationals.                                              *)
NaN == <<>>

Cell(v) == <<v>>

isna(c) == c = NaN

RequiredColumns == {"ID", "X FOM", "Y FOM"}

Rat(n, d) == [num |-> n, den |-> d]

RatEq(p, q) == p.num * q.den = q.num * p.den

RatAdd(p, q) == Rat(p.num * q.den + q.num * p.den, p.den * q.den)

RatMul(p, q) == Rat(p.num * q.num, p.den * q.den)

RECURSIVE Pow10(_)
Pow10(k) == IF k = 0 THEN 1 ELSE 10 * Pow10(k - 1)

----------------------------------------------------------------------------
(* Series helpers: df[col].dropna(), .values[0], .empty.                   *)
Column(frame, col) == [i \in 1..Len(frame.rows) |-> frame.rows[i][col]]

IsValue(c) == ~isna(c)

dropna(series) == SelectSeq(series, IsValue)

(* dropna with how="all": a row goes only when every cell of cols is null *)
RECURSIVE dropna_subset_all(_, _)
dropna_subset_all(rows, cols) ==
    IF rows = <<>> THEN <<>>
    ELSE LET r == Head(rows)
             rest == dropna_subset_all(Tail(rows), cols)
         IN  IF \E c \in cols : ~isna(r[c]) THEN <<r>> \o rest ELSE rest

(* dropna without inplace=True: the frame keeps every row *)
dropna_subset_not_inplace(rows, cols) == rows

(* DataFrame.dropna(subset=cols): keep the rows with every cell of cols    *)
(* non-null, in their order.                                               *)
RECURSIVE dropna_subset(_, _)
dropna_subset(rows, cols) ==
    IF rows = <<>> THEN <<>>
    ELSE LET r == Head(rows)
             rest == dropna_subset(Tail(rows), cols)
         IN  IF \A c \in cols : ~isna(r[c]) THEN <<r>> \o rest ELSE rest

(* str.startswith *)
startswith(s, prefix) ==
    /\ Len(s) >= Len(prefix)
    /\ SubSeq(s, 1, Len(prefix)) = prefix

PROD == <<"P", "R", "O", "D">>

COMP == <<"C", "O", "M", "P">>

(* df[df["ID"].str.startswith(prefix)] *)
RECURSIVE FilterByPrefix(_, _)
FilterByPrefix(rows, prefix) ==
    IF rows = <<>> THEN <<>>
    ELSE LET r == Head(rows)
             rest == FilterByPrefix(Tail(rows), prefix)
         IN  IF startswith(r["ID"][1], prefix) THEN <<r>> \o rest ELSE rest

----------------------------------------------------------------------------
(* The regular expression of parse_sota_override: the letter y, spaces,    *)
(* an equals sign, spaces, group 1 (one or more digits or points), spaces, *)
(* a star, spaces, the letter x, spaces, an optional plus sign, spaces,    *)
(* group 2 (zero or more digits, points or minus signs).                   *)
(* Every quantified class is followed by an item of a disjoint class, so   *)
(* the greedy scan below is the only way the pattern can match at a given  *)
(* start position.                                                         *)
Digits == {"0", "1", "2", "3", "4", "5", "6", "7", "8", "9"}

DigitVal(c) ==
    CASE c = "0" -> 0 [] c = "1" -> 1 [] c = "2" -> 2 [] c = "3" -> 3
      [] c = "4" -> 4 [] c = "5" -> 5 [] c = "6" -> 6 [] c = "7" -> 7
      [] c = "8" -> 8 [] c = "9" -> 9

Whitespace == {" "}

SlopeClass == Digits \cup {"."}

InterceptClass == Digits \cup {".", "-"}

(* the character at position i, "" past the end *)
At(s, i) == IF i <= Len(s) THEN s[i] ELSE ""

(* greedy X*: the first position from i on whose character is not in cls *)
RECURSIVE Skip(_, _, _)
Skip(s, i, cls) ==
    IF i <= Len(s) /\ s[i] \in cls THEN Skip(s, i + 1, cls) ELSE i

(* the match starting exactly at position i: <<>> or <<[g1, g2]>> *)
re_match_at(s, i) ==
    LET p2 == Skip(s, i + 1, Whitespace)
        p3 == Skip(s, p2 + 1, Whitespace)
        p4 == Skip(s, p3, SlopeClass)
        p5 == Skip(s, p4, Whitespace)
        p6 == Skip(s, p5 + 1, Whitespace)
        p7 == Skip(s, p6 + 1, Whitespace)
        p8 == IF At(s, p7) = "+" THEN p7 + 1 ELSE p7
        p9 == Skip(s, p8, Whitespace)
        p10 == Skip(s, p9, InterceptClass)
    IN  IF /\ At(s, i) = "y"
           /\ At(s, p2) = "="
           /\ p4 > p3
           /\ At(s, p5) = "*"
           /\ At(s, p6) = "x"
        THEN <<[g1 |-> SubSeq(s, p3, p4 - 1), g2 |-> SubSeq(s, p9, p10 - 1)]>>
        ELSE <<>>

(* re.search: the match at the leftmost position that has one *)
RECURSIVE re_search_from(_, _)
re_search_from(s, i) ==
    IF i > Len(s) THEN <<>>
    ELSE IF re_match_at(s, i) # <<>> THEN re_match_at(s, i)
    ELSE re_search_from(s, i + 1)

re_search(s) == re_search_from(s, 1)

(* float(text) on text over digits, "." and "-": <<>> is ValueError.       *)
(* Python accepts an optional leading sign, then digits with at most one   *)
(* point and at least one digit.                                           *)
IsDigit(c) == c \in Digits

IsPoint(c) == c = "."

RECURSIVE DigitsToInt(_)
DigitsToInt(ds) ==
    IF ds = <<>> THEN 0
    ELSE 10 * DigitsToInt(SubSeq(ds, 1, Len(ds) - 1)) + DigitVal(ds[Len(ds)])

float(text) ==
    LET neg == Len(text) > 0 /\ text[1] = "-"
        body == IF neg THEN Tail(text) ELSE text
        ds == SelectSeq(body, IsDigit)
        points == SelectSeq(body, IsPoint)
        pointAt == CHOOSE i \in 1..Len(body) : body[i] = "."
        fracLen == IF points = <<>> THEN 0 ELSE Len(body) - pointAt
        mant == DigitsToInt(ds)
    IN  IF /\ Len(ds) + Len(points) = Len(body)
           /\ Len(points) <= 1
           /\ Len(ds) >= 1
        THEN <<Rat(IF neg THEN -mant ELSE mant, Pow10(fracLen))>>
        ELSE <<>>

----------------------------------------------------------------------------
(* Reference functions are the closures the code returns, kept as records  *)
(* of the captured variables; Apply is the body of the lambda.             *)
None == [kind |-> "None"]

Return(v) == [raised |-> "", value |-> v]

Raise(e) == [raised |-> e, value |-> None]

(* truth of the closure taken from the numbers it holds *)
Truthy_of_numbers(v) ==
    /\ v # None
    /\ ~(v.kind = "override" /\ v.slope.num = 0 /\ v.intercept.num = 0)

(* a function object is always true in a boolean context *)
Truthy(v) == v # None

Apply(fn, x) ==
    CASE fn.kind = "override" -> RatAdd(RatMul(fn.slope, Rat(x, 1)), fn.intercept)
      [] fn.kind = "full_like" -> fn.fill_value
      [] fn.kind = "fit" -> RatAdd(RatMul(fn.a, Rat(x, 1)), fn.b)

DefaultTitle == "Figure of Merit (FOM) Scatter Plot"

DefaultXName == "X FOM"

DefaultYName == "Y FOM"

(* the last non-empty value instead of the first *)
MetadataValue_last(frame, col, default) ==
    IF col \in frame.columns /\ dropna(Column(frame, col)) # <<>>
    THEN dropna(Column(frame, col))[Len(dropna(Column(frame, col)))][1]
    ELSE default

(* one line of get_chart_metadata *)
MetadataValue(frame, col, default) ==
    IF col \in frame.columns /\ dropna(Column(frame, col)) # <<>>
    THEN dropna(Column(frame, col))[1][1]
    ELSE default

get_chart_metadata(frame) ==
    [chart_title |-> MetadataValue(frame, "Chart Title", DefaultTitle),
     x_name |-> MetadataValue(frame, "X FOM Name", DefaultXName),
     y_name |-> MetadataValue(frame, "Y FOM Name", DefaultYName)]

parse_sota_override(frame) ==
    IF "SOTA Override" \notin frame.columns THEN Raise("KeyError")
    ELSE LET formula == dropna(Column(frame, "SOTA Override"))
         IN  IF formula # <<>>
             THEN LET match == re_search(formula[1][1])
                  IN  IF match # <<>>
                      THEN LET slope == float(match[1].g1)
                               intercept == IF match[1].g2 # <<>>
                                            THEN float(match[1].g2)
                                            ELSE <<Rat(0, 1)>>
                           IN  IF slope = <<>> \/ intercept = <<>>
                               THEN Raise("ValueError")
                               ELSE Return([kind |-> "override",
                                            slope |-> slope[1],
                                            intercept |-> intercept[1]])
                      ELSE Return(None)
             ELSE Return(None)

RECURSIVE Sum(_)
Sum(seq) == IF seq = <<>> THEN 0 ELSE Head(seq) + Sum(Tail(seq))

Values(series) == [i \in 1..Len(series) |-> series[i][1]]

Products(xs, ys) == [i \in 1..Len(xs) |-> xs[i] * ys[i]]

(* a fit of y = a*x, without the intercept *)
curve_fit_through_origin(x, y) ==
    {[a |-> Rat(Sum(Products(x, y)), Sum(Products(x, x))), b |-> Rat(0, 1)]}

(* free slopes tried when the least-squares problem has no unique minimum *)
MaxFitSlope == 1

(* curve_fit(linear, x, y): the parameters minimising the squared error.   *)
(* With two distinct x the normal equations have one solution; with all x  *)
(* equal every line through (x, mean y) is a minimum and the routine       *)
(* returns one of them.                                                    *)
curve_fit(x, y) ==
    LET n == Len(x)
        Sx == Sum(x)
        Sy == Sum(y)
        Sxx == Sum(Products(x, x))
        Sxy == Sum(Products(x, y))
        det == n * Sxx - Sx * Sx
    IN  IF det # 0
        THEN {[a |-> Rat(n * Sxy - Sx * Sy, det), b |-> Rat(Sxx * Sy - Sx * Sxy, det)]}
        ELSE {[a |-> Rat(s, 1), b |-> Rat(Sy - s * Sx, n)] : s \in (-MaxFitSlope)..MaxFitSlope}

(* the single-competitor value read from the whole frame, not from the    *)
(* competitor rows                                                         *)
compute_sota_auto_unfiltered_value(frame) ==
    LET comp == FilterByPrefix(frame.rows, COMP)
    IN  IF comp = <<>>
        THEN {[kind |-> "full_like", fill_value |-> Rat(0, 1)]}
        ELSE IF Len(comp) = 1
        THEN {[kind |-> "full_like", fill_value |-> Rat(frame.rows[1]["Y FOM"][1], 1)]}
        ELSE LET x == Values(Column([rows |-> comp], "X FOM"))
                 y == Values(Column([rows |-> comp], "Y FOM"))
             IN  {[kind |-> "fit", a |-> params.a, b |-> params.b] : params \in curve_fit(x, y)}

(* the set of closures compute_sota_auto can return *)
compute_sota_auto(frame) ==
    LET comp == FilterByPrefix(frame.rows, COMP)
    IN  IF comp = <<>>
        THEN {[kind |-> "full_like", fill_value |-> Rat(0, 1)]}
        ELSE IF Len(comp) = 1
        THEN {[kind |-> "full_like", fill_value |-> Rat(comp[1]["Y FOM"][1], 1)]}
        ELSE LET x == Values(Column([rows |-> comp], "X FOM"))
                 y == Values(Column([rows |-> comp], "Y FOM"))
             IN  {[kind |-> "fit", a |-> params.a, b |-> params.b] : params \in curve_fit(x, y)}

(* Series.min() and Series.max(): NaN on an empty series *)
SeriesMin(series) ==
    IF series = <<>> THEN NaN
    ELSE Cell(CHOOSE m \in {series[i][1] : i \in 1..Len(series)} :
                 \A i \in 1..Len(series) : m <= series[i][1])

SeriesMax(series) ==
    IF series = <<>> THEN NaN
    ELSE Cell(CHOOSE m \in {series[i][1] : i \in 1..Len(series)} :
                 \A i \in 1..Len(series) : m >= series[i][1])

(* what plot_fom draws *)
plot_fom(frame, fn) ==
    LET meta == get_chart_metadata(frame)
    IN  [title |-> meta.chart_title,
         xlabel |-> meta.x_name,
         ylabel |-> meta.y_name,
         competitors |-> FilterByPrefix(frame.rows, COMP),
         products |-> FilterByPrefix(frame.rows, PROD),
         x_lo |-> SeriesMin(Column(frame, "X FOM")),
         x_hi |-> SeriesMax(Column(frame, "X FOM")),
         line |-> fn]

----------------------------------------------------------------------------
(* The pipeline of __main__.                                               *)
Exit(status, exc) ==
    /\ pc' = "exited"
    /\ exit_status' = <<status>>
    /\ raised' = exc

SelectFile ==
    /\ pc = "select_file"
    /\ called' = Append(called, "select_file")
    /\ \E chosen \in BOOLEAN :
          IF ~chosen
          THEN /\ messages' = Append(messages, "No file selected.")
               /\ Exit(1, "SystemExit")
               /\ UNCHANGED file_path
          ELSE /\ file_path' = "chosen"
               /\ pc' = "load_fom_data"
               /\ UNCHANGED <<messages, exit_status, raised>>
    /\ UNCHANGED <<file, df, sota_fn, df_comp, figure>>

(* the except branch without its exit(1): the message is shown and the    *)
(* pipeline goes on with no dataset                                        *)
LoadFomData_without_exit ==
    /\ pc = "load_fom_data"
    /\ called' = Append(called, "load_fom_data")
    /\ IF file.readable /\ {"X FOM", "Y FOM"} \subseteq file.columns
       THEN /\ df' = [columns |-> file.columns,
                      rows |-> dropna_subset(file.rows, {"X FOM", "Y FOM"})]
            /\ UNCHANGED messages
       ELSE /\ messages' = Append(messages, "Failed to load Excel file")
            /\ UNCHANGED df
    /\ pc' = "parse_sota_override"
    /\ UNCHANGED <<file, file_path, sota_fn, df_comp, figure, exit_status, raised>>

LoadFomData ==
    /\ pc = "load_fom_data"
    /\ called' = Append(called, "load_fom_data")
    /\ IF file.readable /\ {"X FOM", "Y FOM"} \subseteq file.columns
       THEN /\ df' = [columns |-> file.columns,
                      rows |-> dropna_subset(file.rows, {"X FOM", "Y FOM"})]
            /\ pc' = "parse_sota_override"
            /\ UNCHANGED <<messages, exit_status, raised>>
       ELSE /\ messages' = Append(messages, "Failed to load Excel file")
            /\ Exit(1, "SystemExit")
            /\ UNCHANGED df
    /\ UNCHANGED <<file, file_path, sota_fn, df_comp, figure>>

ParseSotaOverride ==
    /\ pc = "parse_sota_override"
    /\ called' = Append(called, "parse_sota_override")
    /\ LET r == parse_sota_override(df)
       IN  IF r.raised # ""
           THEN /\ Exit(1, r.raised)
                /\ UNCHANGED sota_fn
           ELSE /\ sota_fn' = r.value
                /\ pc' = IF Truthy(r.value) THEN "plot_fom" ELSE "compute_sota_auto"
                /\ UNCHANGED <<exit_status, raised>>
    /\ UNCHANGED <<file, file_path, df, df_comp, figure, messages>>

ComputeSotaAuto ==
    /\ pc = "compute_sota_auto"
    /\ called' = Append(called, "compute_sota_auto")
    /\ df_comp' = FilterByPrefix(df.rows, COMP)
    /\ \E fn \in compute_sota_auto(df) : sota_fn' = fn
    /\ pc' = "plot_fom"
    /\ UNCHANGED <<file, file_path, df, figure, messages, raised, exit_status>>

PlotFom ==
    /\ pc = "plot_fom"
    /\ called' = Append(called, "plot_fom")
    /\ figure' = <<plot_fom(df, sota_fn)>>
    /\ pc' = "done"
    /\ exit_status' = <<0>>
    /\ UNCHANGED <<file, file_path, df, sota_fn, df_comp, messages, raised>>

Next ==
    \/ SelectFile
    \/ LoadFomData
    \/ ParseSotaOverride
    \/ ComputeSotaAuto
    \/ PlotFom

----------------------------------------------------------------------------
(* Input workbooks.                                                        *)
COMP1 == COMP \o <<"1">>

PROD1 == PROD \o <<"1">>

REF1 == <<"R", "E", "F", "1">>

Row(cols, id, x, y, title, xname, yname, override) ==
    [c \in cols |->
        CASE c = "ID" -> Cell(id)
          [] c = "X FOM" -> x
          [] c = "Y FOM" -> y
          [] c = "Chart Title" -> title
          [] c = "X FOM Name" -> xname
          [] c = "Y FOM Name" -> yname
          [] c = "SOTA Override" -> override]

(* a workbook without the FOM_Data sheet, and one without the Y FOM column *)
BadFiles ==
    {[readable |-> FALSE, columns |-> {}, rows |-> <<>>],
     [readable |-> TRUE, columns |-> {"ID", "X FOM"},
      rows |-> <<[c \in {"ID", "X FOM"} |-> IF c = "ID" THEN Cell(COMP1) ELSE Cell(1)]>>]}

(* the state before select_file runs; the workbook on disk is a bad one or *)
(* has the given columns and up to n rows of rowSet                        *)
InitWith(cols, rowSet, n) ==
    /\ pc = "select_file"
    /\ \/ file \in BadFiles
       \/ \E k \in 0..n : \E rs \in [1..k -> rowSet] :
             file = [readable |-> TRUE, columns |-> cols, rows |-> rs]
    /\ file_path = ""
    /\ df = [columns |-> {}, rows |-> <<>>]
    /\ sota_fn = None
    /\ df_comp = <<>>
    /\ figure = <<>>
    /\ called = <<>>
    /\ messages = <<>>
    /\ raised = ""
    /\ exit_status = <<>>

(* competitor and product points, no override: the automatic fit *)
FitColumns == RequiredColumns \cup {"SOTA Override"}

FitXs == {1, 2, 5}

FitYs == {1, 10, 20}

FitRows ==
    {Row(FitColumns, id, Cell(x), Cell(y), NaN, NaN, NaN, NaN) :
        id \in {COMP1, PROD1}, x \in FitXs, y \in FitYs}

InitFit == InitWith(FitColumns, FitRows, MaxRowsFit)

SpecFit == InitFit /\ [][Next]_vars

(* rows of three kinds of ID, for what the renderer draws *)
PlotRows ==
    {Row(FitColumns, id, Cell(x), Cell(10), NaN, NaN, NaN, NaN) :
        id \in {COMP1, PROD1, REF1}, x \in FitXs}

Init == InitWith(FitColumns, PlotRows, MaxRowsPlot)

Spec == Init /\ [][Next]_vars

----------------------------------------------------------------------------
(* Override formulas written the way section 6 of the specification        *)
(* describes them.  A numeral carries its text and, independently, the     *)
(* number it denotes.                                                      *)
Num0 == [text |-> <<"0">>, value |-> Rat(0, 1)]

Num2 == [text |-> <<"2">>, value |-> Rat(2, 1)]

Num15 == [text |-> <<"1", ".", "5">>, value |-> Rat(3, 2)]

(* (slope, intercept) pairs of the formulas in the input family *)
NumeralPairs == {<<Num0, Num0>>, <<Num15, Num2>>}

SP == <<" ">>

(* "y = s * x" followed by the intercept with the given sign;              *)
(* style "spaced": y = s * x + c    "tight": y=s*x+c                        *)
(* style "attached": y = s * x +c   sign "": no intercept                  *)
OverrideText(s, sign, c, style) ==
    LET head == IF style = "tight"
                THEN <<"y", "=">> \o s.text \o <<"*", "x">>
                ELSE <<"y", " ", "=", " ">> \o s.text \o <<" ", "*", " ", "x">>
        tail == IF sign = "" THEN <<>>
                ELSE IF style = "tight" THEN <<sign>> \o c.text
                ELSE IF style = "attached" THEN SP \o <<sign>> \o c.text
                ELSE SP \o <<sign>> \o SP \o c.text
    IN  head \o tail

(* formulas with no intercept or a "+" intercept *)
PlusFormulas ==
    {OverrideText(p[1], "", p[2], "spaced") : p \in NumeralPairs}
    \cup {OverrideText(p[1], "+", p[2], st) : p \in NumeralPairs, st \in {"spaced", "tight"}}

(* formulas with a "-" intercept *)
MinusFormulas ==
    {OverrideText(p[1], "-", p[2], st) :
        p \in NumeralPairs, st \in {"spaced", "tight", "attached"}}

(* text that is no formula, a formula with a signed slope (the pattern     *)
(* reads no sign there), and a formula whose slope is no number            *)
NonFormulas ==
    {<<"n", "/", "a">>,
     <<"y", " ", "=", " ", "-", "2", " ", "*", " ", "x">>,
     <<"y", " ", "=", " ", "1", ".", "5", ".", "2", " ", "*", " ", "x">>}

OverrideCells ==
    {NaN} \cup {Cell(t) : t \in PlusFormulas \cup MinusFormulas \cup NonFormulas}

OverrideRows(cols) ==
    {Row(cols, id, Cell(1), Cell(10), NaN, NaN, NaN, ov) :
        id \in {COMP1, PROD1},
        ov \in IF "SOTA Override" \in cols THEN OverrideCells ELSE {NaN}}

InitOverride ==
    \E cols \in {RequiredColumns, RequiredColumns \cup {"SOTA Override"}} :
        InitWith(cols, OverrideRows(cols), MaxRowsOverride)

SpecOverride == InitOverride /\ [][Next]_vars

(* workbooks with any of the three metadata columns, rows with and         *)
(* without their FOM values                                                *)
MetaColumnSets ==
    {FitColumns \cup opt : opt \in SUBSET {"Chart Title", "X FOM Name", "Y FOM Name"}}

MetaRows(cols) ==
    {Row(cols, COMP1, x, y, t, xn, yn, NaN) :
        x \in {NaN, Cell(1)}, y \in {NaN, Cell(10)},
        t \in IF "Chart Title" \in cols THEN {NaN, Cell("Title A"), Cell("Title B")} ELSE {NaN},
        xn \in IF "X FOM Name" \in cols THEN {NaN, Cell("Speed")} ELSE {NaN},
        yn \in IF "Y FOM Name" \in cols THEN {NaN, Cell("Power")} ELSE {NaN}}

InitMeta == \E cols \in MetaColumnSets : InitWith(cols, MetaRows(cols), MaxRowsMeta)

SpecMeta == InitMeta /\ [][Next]_vars

(* workbooks with all four optional columns, whose values may sit on rows  *)
(* that the loader drops                                                   *)
MaxRowsFilter == 2

FilterColumns ==
    RequiredColumns \cup {"Chart Title", "X FOM Name", "Y FOM Name", "SOTA Override"}

FilterRows ==
    {Row(FilterColumns, COMP1, x, y, t, xn, yn, ov) :
        x \in {NaN, Cell(1)}, y \in {NaN, Cell(10)},
        t \in {NaN, Cell("Title A")},
        xn \in {NaN, Cell("Speed")},
        yn \in {NaN, Cell("Power")},
        ov \in {NaN, Cell(OverrideText(Num15, "+", Num2, "spaced"))}}

InitFilter == InitWith(FilterColumns, FilterRows, MaxRowsFilter)

SpecFilter == InitFilter /\ [][Next]_vars

----------------------------------------------------------------------------
(* Vocabulary of the properties.                                           *)
Called(f) == \E i \in 1..Len(called) : called[i] = f

(* the loader returned a dataset *)
Loaded == Called("load_fom_data") /\ messages = <<>>

HasValue(rows, col) == \E i \in 1..Len(rows) : ~isna(rows[i][col])

FirstValueIndex(rows, col) ==
    CHOOSE i \in 1..Len(rows) :
        /\ ~isna(rows[i][col])
        /\ \A j \in 1..(i - 1) : isna(rows[j][col])

(* the first non-empty cell of a column of the loaded dataset, NaN if none *)
FirstValue(col) ==
    IF col \in df.columns /\ HasValue(df.rows, col)
    THEN df.rows[FirstValueIndex(df.rows, col)][col]
    ELSE NaN

IsCompRow(r) == startswith(r["ID"][1], COMP)

IsProdRow(r) == startswith(r["ID"][1], PROD)

CompRows == SelectSeq(df.rows, IsCompRow)

MaxSampleX == 3

SampleXs == 0..MaxSampleX

(* fn is the line y = a*x + b (a, b rationals) on the sample inputs *)
IsLine(fn, a, b) ==
    /\ fn # None
    /\ \A x \in SampleXs : RatEq(Apply(fn, x), RatAdd(RatMul(a, Rat(x, 1)), b))

(* fn is constantly v on the sample inputs *)
IsConstant(fn, v) ==
    /\ fn # None
    /\ \A x \in SampleXs : RatEq(Apply(fn, x), v)

Neg(q) == Rat(-q.num, q.den)

----------------------------------------------------------------------------
(* C1: whenever the first non-empty SOTA Override value of the loaded      *)
(* dataset is "y = s * x" or "y = s * x + c", parsing does not raise, the  *)
(* resolved function is s*x + c (c = 0 when absent), and the automatic fit *)
(* is never run, also when s and c are 0 and whatever the COMP rows are.   *)
C1_OverrideWins ==
    \A p \in NumeralPairs, sign \in {"", "+"}, st \in {"spaced", "tight"} :
        (/\ Called("parse_sota_override")
         /\ FirstValue("SOTA Override") = Cell(OverrideText(p[1], sign, p[2], st)))
        => /\ raised = ""
           /\ IsLine(sota_fn, p[1].value, IF sign = "" THEN Rat(0, 1) ELSE p[2].value)
           /\ ~Called("compute_sota_auto")
           /\ pc \in {"plot_fom", "done"}

(* a run that ended with the override "y = 0 * x + 0" and two COMP rows *)
C1_Witness ==
    /\ pc = "done"
    /\ FirstValue("SOTA Override") = Cell(OverrideText(Num0, "+", Num0, "spaced"))
    /\ Len(CompRows) = 2
    /\ sota_fn.kind = "override"
    /\ ~Called("compute_sota_auto")

(* C2: a formula "y = s * x - c", with or without spaces between x, "-"    *)
(* and c, parses to slope s and intercept -c and does not raise.           *)
C2_NegativeIntercept ==
    \A p \in NumeralPairs, st \in {"spaced", "tight", "attached"} :
        (/\ Called("parse_sota_override")
         /\ FirstValue("SOTA Override") = Cell(OverrideText(p[1], "-", p[2], st)))
        => /\ raised = ""
           /\ IsLine(sota_fn, p[1].value, Neg(p[2].value))

(* C3: when the SOTA Override column is absent, is entirely empty, or its  *)
(* first non-empty value is no formula, the resolver raises nothing and    *)
(* goes on to the automatic fit.                                           *)
C3_ParseNeverFails ==
    (/\ Called("parse_sota_override")
     /\ \/ "SOTA Override" \notin df.columns
        \/ FirstValue("SOTA Override") = NaN
        \/ FirstValue("SOTA Override") \in {Cell(t) : t \in NonFormulas})
    => /\ raised = ""
       /\ pc = "compute_sota_auto" \/ Called("compute_sota_auto")

LineSlopes == (-2)..10

(* the intercept of the line of slope a through the first of the rows *)
InterceptThrough(rows, a) == rows[1]["Y FOM"][1] - a * rows[1]["X FOM"][1]

OnLine(r, a, b) == r["Y FOM"][1] = a * r["X FOM"][1] + b

AllOnLine(rows, a, b) == \A i \in 1..Len(rows) : OnLine(rows[i], a, b)

TwoDistinctXs(rows) ==
    \E i, j \in 1..Len(rows) : rows[i]["X FOM"] # rows[j]["X FOM"]

(* C5 as stated: with two or more COMP rows on a line y = a*x + b, the     *)
(* resolved function is that line.                                         *)
C5_FitRecoversLine ==
    (Called("compute_sota_auto") /\ Len(CompRows) >= 2)
    => LET comp == CompRows
       IN  \A a \in LineSlopes :
              LET b == InterceptThrough(comp, a)
              IN  AllOnLine(comp, a, b) => IsLine(sota_fn, Rat(a, 1), Rat(b, 1))

(* C5 amended: with two or more COMP rows that have at least two distinct  *)
(* X FOM values and lie on a line y = a*x + b, the resolved function is    *)
(* that line, whatever the PROD rows are.                                  *)
C5_FitRecoversLineDistinctX ==
    (Called("compute_sota_auto") /\ Len(CompRows) >= 2 /\ TwoDistinctXs(CompRows))
    => LET comp == CompRows
       IN  \A a \in LineSlopes :
              LET b == InterceptThrough(comp, a)
              IN  AllOnLine(comp, a, b) => IsLine(sota_fn, Rat(a, 1), Rat(b, 1))

(* COMP rows (1,10), (2,20) and a PROD row (5,1): the fit is y = 10x *)
C5_Witness ==
    /\ pc = "done"
    /\ Len(df.rows) = 3
    /\ IsCompRow(df.rows[1])
    /\ df.rows[1]["X FOM"] = Cell(1) /\ df.rows[1]["Y FOM"] = Cell(10)
    /\ IsCompRow(df.rows[2])
    /\ df.rows[2]["X FOM"] = Cell(2) /\ df.rows[2]["Y FOM"] = Cell(20)
    /\ IsProdRow(df.rows[3])
    /\ df.rows[3]["X FOM"] = Cell(5) /\ df.rows[3]["Y FOM"] = Cell(1)
    /\ sota_fn.kind = "fit"
    /\ IsLine(sota_fn, Rat(10, 1), Rat(0, 1))

MissingFom(r) == isna(r["X FOM"]) \/ isna(r["Y FOM"])

(* C6: the loaded dataset is the workbook's rows without those missing     *)
(* X FOM or Y FOM: no loaded row misses a value, the count drops by the    *)
(* number of such rows, the others are kept unchanged in their order.      *)
C6_LoadDropsExactlyNullRows ==
    Loaded
    => LET kept == {i \in 1..Len(file.rows) : ~MissingFom(file.rows[i])}
           dropped == {i \in 1..Len(file.rows) : MissingFom(file.rows[i])}
       IN  /\ \A k \in 1..Len(df.rows) : ~MissingFom(df.rows[k])
           /\ Len(df.rows) = Len(file.rows) - Cardinality(dropped)
           /\ \E f \in [1..Len(df.rows) -> kept] :
                 /\ \A k \in 1..Len(df.rows) : df.rows[k] = file.rows[f[k]]
                 /\ \A k, l \in 1..Len(df.rows) : k < l => f[k] < f[l]

(* a workbook whose first row misses only its Y FOM and whose second is    *)
(* complete                                                                *)
C6_Witness ==
    /\ Loaded
    /\ Len(file.rows) = 2
    /\ ~isna(file.rows[1]["X FOM"]) /\ isna(file.rows[1]["Y FOM"])
    /\ ~MissingFom(file.rows[2])
    /\ df.rows = <<file.rows[2]>>

ExpectedMetadata(col, default) ==
    IF col \in df.columns /\ HasValue(df.rows, col)
    THEN df.rows[FirstValueIndex(df.rows, col)][col][1]
    ELSE default

(* C7: the title and the two axis names drawn are, each on its own, the    *)
(* first non-empty value of their column in the dataset, or the default    *)
(* when the column is absent or empty; extraction raises nothing.          *)
C7_MetadataTotal ==
    pc = "done"
    => /\ raised = ""
       /\ figure # <<>>
       /\ figure[1].title = ExpectedMetadata("Chart Title", DefaultTitle)
       /\ figure[1].xlabel = ExpectedMetadata("X FOM Name", DefaultXName)
       /\ figure[1].ylabel = ExpectedMetadata("Y FOM Name", DefaultYName)

(* no Chart Title column, X FOM Name empty on the first row and set on the *)
(* second, Y FOM Name entirely empty                                       *)
C7_Witness ==
    /\ pc = "done"
    /\ "Chart Title" \notin df.columns
    /\ {"X FOM Name", "Y FOM Name"} \subseteq df.columns
    /\ Len(df.rows) = 2
    /\ isna(df.rows[1]["X FOM Name"]) /\ df.rows[2]["X FOM Name"] = Cell("Speed")
    /\ ~HasValue(df.rows, "Y FOM Name")
    /\ figure[1].title = DefaultTitle
    /\ figure[1].xlabel = "Speed"
    /\ figure[1].ylabel = DefaultYName

NoFileChosen == Called("select_file") /\ file_path = ""

LoadFailed ==
    /\ Called("load_fom_data")
    /\ ~(file.readable /\ {"X FOM", "Y FOM"} \subseteq file.columns)

InSeq(r, rows) == \E i \in 1..Len(rows) : rows[i] = r

(* C9: every loaded row is in exactly one of the categories PROD and COMP, *)
(* is drawn as a product or a competitor point and lies in the x-range of  *)
(* the line; the rows fitted are the rows drawn as competitors.            *)
C9_PrefixPartitions ==
    pc = "done"
    => /\ \A i \in 1..Len(df.rows) :
             /\ IsProdRow(df.rows[i]) # IsCompRow(df.rows[i])
             /\ InSeq(df.rows[i], figure[1].products) # InSeq(df.rows[i], figure[1].competitors)
             /\ figure[1].x_lo[1] <= df.rows[i]["X FOM"][1]
             /\ df.rows[i]["X FOM"][1] <= figure[1].x_hi[1]
       /\ Called("compute_sota_auto") => df_comp = figure[1].competitors

OnlyOnDroppedRows(col) ==
    /\ HasValue(file.rows, col)
    /\ \A i \in 1..Len(file.rows) : ~isna(file.rows[i][col]) => MissingFom(file.rows[i])

(* C10: a title, axis name or override that the workbook has only on rows  *)
(* missing X FOM or Y FOM is not seen by the pipeline: the default title   *)
(* or axis name is drawn, and the resolver goes on to the automatic fit.   *)
C10_MetadataReadAfterFilter ==
    /\ (pc = "done" /\ OnlyOnDroppedRows("Chart Title"))
       => figure[1].title = DefaultTitle
    /\ (pc = "done" /\ OnlyOnDroppedRows("X FOM Name"))
       => figure[1].xlabel = DefaultXName
    /\ (pc = "done" /\ OnlyOnDroppedRows("Y FOM Name"))
       => figure[1].ylabel = DefaultYName
    /\ (Called("parse_sota_override") /\ OnlyOnDroppedRows("SOTA Override"))
       => /\ raised = ""
          /\ pc = "compute_sota_auto" \/ Called("compute_sota_auto")
          /\ pc \in {"plot_fom", "done"} => sota_fn \in compute_sota_auto(df)

(* the title and the override sit on a row without X FOM, a complete row   *)
(* follows                                                                 *)
C10_Witness ==
    /\ pc = "done"
    /\ Len(file.rows) = 2
    /\ isna(file.rows[1]["X FOM"])
    /\ ~isna(file.rows[1]["Chart Title"]) /\ ~isna(file.rows[1]["SOTA Override"])
    /\ isna(file.rows[2]["Chart Title"]) /\ isna(file.rows[2]["SOTA Override"])
    /\ ~MissingFom(file.rows[2])
    /\ figure[1].title = DefaultTitle
    /\ Called("compute_sota_auto")
    /\ IsConstant(sota_fn, Rat(10, 1))

====
